---- MODULE Spec2Model ----
(***************************************************************************)
(* Model of signposting.signpost: the Signpost value object and the        *)
(* Signposting aggregate (constructor, iteration, signposts, for_context,  *)
(* __or__, __add__).                                                       *)
(*                                                                         *)
(* Encoding.  URIs (AbsoluteURI) and media types (MediaType) are positive  *)
(* integers; Python's None is 0.  An Optional[Signpost] attribute (citeAs, *)
(* license, collection) is a sequence of length 0 (None) or 1.  A Python   *)
(* set is a TLA+ set; wherever the code enumerates a set (whose order      *)
(* depends on the per-process string hash seed) the model draws every      *)
(* enumeration order.  Signpost.link takes no part in equality and is      *)
(* copied unchanged, so it is left out of the record.                      *)
(***************************************************************************)
EXTENDS Integers, Sequences, FiniteSets, TLC

\* ---------------------------------------------------------------- bounds
NTargets == 2
NContexts == 2
MaxLen == 2
MaxLenOther == 1
MaxLenNew == 2
MaxDepth == 1

\* ------------------------------------------------------------ value types
None == 0

Targets == 1..NTargets
Contexts == 1..NContexts
OptContexts == {None} \cup Contexts

\* the empty string "", which Python takes for false as it does None
Empty == -1
\* a string that AbsoluteURI rejects, such as "rel/path"
NotAbsolute == -2
\* the values a caller may pass as context_url
ContextArgs == OptContexts \cup {Empty, NotAbsolute}

\* class LinkRel
LinkRel == {"author", "collection", "describedby", "item", "cite-as", "type",
            "license", "linkset"}

\* Signpost.__init__ : the attributes that _eq_attribs compares
Signpost(rel, target, media_type, profiles, context) ==
    [rel |-> rel, target |-> target, type |-> media_type,
     profiles |-> profiles, context |-> context]

\* Signpost.with_context
with_context(s, context) ==
    Signpost(s.rel, s.target, s.type, s.profiles, context)

\* ------------------------------------------------------------ Signposting
\* Signposting.__init__ : "Initialize attributes with empty defaults"
EmptySignposting(context_url) ==
    [context_url |-> context_url,
     citeAs |-> <<>>, license |-> <<>>, collection |-> <<>>,
     authors |-> {}, describedBy |-> {}, items |-> {}, linksets |-> {},
     types |-> {}, other_contexts |-> {}, extras |-> {}, others |-> {}]

\* the messages of the warn() calls of the module
WarningKinds == {"cite-as", "license", "collection", "unrecognized",
                 "unknown-context"}

\* no warn() call yet
NoWarnings == [k \in WarningKinds |-> 0]

\* warn(...) : one more call with message kind k
Warn(warned, k) == [warned EXCEPT ![k] = @ + 1]

\* faulty variant of EffectiveContext: every signpost is taken to be about
\* the Signposting's own context
EffectiveContext_Own(self, s, include_no_context) ==
    self.context_url

\* faulty variant of EffectiveContext: include_no_context is ignored
EffectiveContext_Explicit(self, s, include_no_context) ==
    s.context

\* Signposting.__init__ : the context a signpost is filed under,
\* "if include_no_context and not s.context: context = self.context_url"
EffectiveContext(self, s, include_no_context) ==
    IF include_no_context /\ s.context = None
    THEN self.context_url
    ELSE s.context

\* faulty variant of IsDuplicate: == where the code has !=
IsDuplicate_SameTarget(current, s) ==
    current # <<>> /\ current[1].target = s.target

\* Signposting.__init__ : "if self.citeAs and self.citeAs.target != s.target"
\* (the same test guards license and collection)
IsDuplicate(current, s) ==
    current # <<>> /\ current[1].target # s.target

\* faulty variant of OtherContextsAdd: the test "if context" is left out
OtherContextsAdd_Always(other_contexts, context) ==
    other_contexts \cup {context}

\* Signposting.__init__ : "if context: self.other_contexts.add(context)"
OtherContextsAdd(other_contexts, context) ==
    IF context # None THEN other_contexts \cup {context} ELSE other_contexts

\* Signposting.__init__ : the body of "for s in signposts"
\* acc.self is the object under construction, acc.warned counts the warn()
\* calls made so far, per message
AddSignpost(acc, s, include_no_context, warn_duplicate) ==
    LET self == acc.self
        context == EffectiveContext(self, s, include_no_context)
    IN  IF self.context_url # None /\ self.context_url # context
        THEN [acc EXCEPT !.self.others = @ \cup {s},
                         !.self.other_contexts = OtherContextsAdd(@, context)]
        ELSE IF s.rel = "cite-as"
        THEN IF IsDuplicate(self.citeAs, s)
             THEN [acc EXCEPT !.self.extras = @ \cup {s},
                              !.warned = IF warn_duplicate
                                         THEN Warn(@, "cite-as") ELSE @]
             ELSE [acc EXCEPT !.self.citeAs = <<s>>]
        ELSE IF s.rel = "license"
        THEN IF IsDuplicate(self.license, s)
             THEN [acc EXCEPT !.self.extras = @ \cup {s},
                              !.warned = IF warn_duplicate
                                         THEN Warn(@, "license") ELSE @]
             ELSE [acc EXCEPT !.self.license = <<s>>]
        ELSE IF s.rel = "collection"
        THEN IF IsDuplicate(self.collection, s)
             THEN [acc EXCEPT !.self.extras = @ \cup {s},
                              !.warned = IF warn_duplicate
                                         THEN Warn(@, "collection") ELSE @]
             ELSE [acc EXCEPT !.self.collection = <<s>>]
        ELSE IF s.rel = "author"
        THEN [acc EXCEPT !.self.authors = @ \cup {s}]
        ELSE IF s.rel = "describedby"
        THEN [acc EXCEPT !.self.describedBy = @ \cup {s}]
        ELSE IF s.rel = "item"
        THEN [acc EXCEPT !.self.items = @ \cup {s}]
        ELSE IF s.rel = "linkset"
        THEN [acc EXCEPT !.self.linksets = @ \cup {s}]
        ELSE IF s.rel = "type"
        THEN [acc EXCEPT !.self.types = @ \cup {s}]
        ELSE [acc EXCEPT !.self.extras = @ \cup {s},
                         !.warned = Warn(@, "unrecognized")]

RECURSIVE Populate(_, _, _, _)
\* Signposting.__init__ : the loop "for s in signposts", in the given order
Populate(acc, signposts, include_no_context, warn_duplicate) ==
    IF signposts = <<>>
    THEN acc
    ELSE Populate(AddSignpost(acc, Head(signposts), include_no_context,
                              warn_duplicate),
                  Tail(signposts), include_no_context, warn_duplicate)

\* raising only for the context None
RaisesValueError_NoneOnly(context_url, include_no_context) ==
    \/ ~include_no_context /\ context_url = None
    \/ context_url = NotAbsolute

\* Signposting.__init__ raises ValueError on these arguments:
\* "if not include_no_context and not context_url", or AbsoluteURI
\* rejecting the context
RaisesValueError(context_url, include_no_context) ==
    \/ ~include_no_context /\ context_url \in {None, Empty}
    \/ context_url = NotAbsolute

\* Signposting.__init__ : "if context_url: self.context_url =
\* AbsoluteURI(context_url) else: self.context_url = None"
ContextOf(context_url) ==
    IF context_url \in Contexts THEN context_url ELSE None

\* Signposting(context_url, signposts, include_no_context, warn_duplicate)
\* for arguments that do not raise
NewSignposting(context_url, signposts, include_no_context, warn_duplicate) ==
    Populate([self |-> EmptySignposting(ContextOf(context_url)),
              warned |-> NoWarnings],
             signposts, include_no_context, warn_duplicate)

\* ------------------------------------------------- enumeration of a set
RECURSIVE Orders(_)
\* the orders in which Python may enumerate the set S
Orders(S) ==
    IF S = {}
    THEN {<<>>}
    ELSE UNION {{<<x>> \o q : q \in Orders(S \ {x})} : x \in S}

\* set(q) of a sequence
ToSet(q) == {q[i] : i \in 1..Len(q)}

\* ------------------------------------------------ Signposting : reading
\* Signposting.__iter__ : the sequences the generator may yield
\* (linksets is not enumerated by the code)
IterOrders(self) ==
    {self.citeAs \o self.license \o self.collection \o a \o d \o i \o t \o e :
        a \in Orders(self.authors), d \in Orders(self.describedBy),
        i \in Orders(self.items), t \in Orders(self.types),
        e \in Orders(self.extras)}

\* set(self) : the signposts __iter__ yields
IterSet(self) ==
    ToSet(self.citeAs) \cup ToSet(self.license) \cup ToSet(self.collection)
    \cup self.authors \cup self.describedBy \cup self.items \cup self.types
    \cup self.extras

\* Signposting.__len__ : sum(1 for _ in self)
SignpostingLen(self) ==
    Len(self.citeAs) + Len(self.license) + Len(self.collection)
    + Cardinality(self.authors) + Cardinality(self.describedBy)
    + Cardinality(self.items) + Cardinality(self.types)
    + Cardinality(self.extras)

\* Signposting.__eq__ for a Signposting o : set(self) == set(o)
SignpostingEq(self, o) == IterSet(self) = IterSet(o)

\* Signposting.signposts : frozenset(itertools.chain(self, self._others))
signposts(self) == IterSet(self) \cup self.others

\* faulty variant of ExplicitOwn: the signposts are yielded as they are
ExplicitOwn_AsIs(self, q) ==
    q

\* Signposting._signposts_with_explicit_context : first loop, "for s in self"
ExplicitOwn(self, q) ==
    [i \in 1..Len(q) |->
        IF q[i].context = None /\ self.context_url # None
        THEN with_context(q[i], self.context_url)
        ELSE q[i]]

\* faulty variant of ExplicitOthers: every signpost of the others is yielded
ExplicitOthers_All(self, o) ==
    o

\* Signposting._signposts_with_explicit_context : second loop, the others
\* that are yielded, in the order o
ExplicitOthers(self, o) ==
    SelectSeq(o, LAMBDA x : ~(x.context = None /\ self.context_url # None))

\* Signposting._signposts_with_explicit_context : the others skipped with
\* warn("Ignoring signpost with unknown context")
IgnoredOthers(self) ==
    {x \in self.others : x.context = None /\ self.context_url # None}

\* Signposting._signposts_with_explicit_context : the sequences it may yield
ExplicitOrders(self) ==
    {ExplicitOwn(self, q) \o ExplicitOthers(self, o) :
        q \in IterOrders(self), o \in Orders(self.others)}

\* the warn() calls of one full run of _signposts_with_explicit_context
ExplicitWarned(self, warned) ==
    [warned EXCEPT !["unknown-context"] = @ + Cardinality(IgnoredOthers(self))]


\* ---------------------------------------------- Signposting : operations
\* Signposting.for_context : every result it may return (with the warn()
\* calls made on the way), one per enumeration order of the sets involved
for_context(self, context_uri) ==
    LET include_no_context == (context_uri = None)
    IN  IF include_no_context
        THEN {NewSignposting(context_uri, q, include_no_context, TRUE) :
                 q \in Orders(signposts(self))}
        ELSE {[n EXCEPT !.warned = ExplicitWarned(self, @)] :
                 n \in {NewSignposting(context_uri, q, include_no_context, TRUE) :
                           q \in ExplicitOrders(self)}}

\* faulty variant of newContext: the right-hand context is preferred
newContext_Right(self, other) ==
    IF other.context_url # None THEN other.context_url ELSE self.context_url

\* Signposting.__or__ : newContext = self.context_url or other.context_url
newContext(self, other) ==
    IF self.context_url # None THEN self.context_url ELSE other.context_url

\* Signposting.__or__ for a Signposting other : every result it may return
or(self, other) ==
    IF newContext(self, other) # None
    THEN {[n EXCEPT !.warned = ExplicitWarned(other, ExplicitWarned(self, @))] :
             n \in {NewSignposting(newContext(self, other), q1 \o q2,
                                   FALSE, FALSE) :
                       q1 \in ExplicitOrders(self),
                       q2 \in ExplicitOrders(other)}}
    ELSE {NewSignposting(newContext(self, other), q1 \o q2, TRUE, FALSE) :
             q1 \in Orders(signposts(self)),
             q2 \in Orders(signposts(other))}

\* Signposting.__add__ : the else branch, the generator
\* (s for s in other if s.context == self.context_url or not s.context)
to_add(self, q) ==
    SelectSeq(q, LAMBDA s : s.context = self.context_url \/ s.context = None)

\* faulty variant of add_chain: self.signposts chained before to_add
add_chain_OwnFirst(self, added, warned) ==
    {[n EXCEPT !.warned = [k \in WarningKinds |-> @[k] + warned[k]]] :
        n \in {NewSignposting(self.context_url, q \o added, TRUE, FALSE) :
                  q \in Orders(signposts(self))}}

\* Signposting.__add__ : Signposting(self.context_url,
\*     itertools.chain(to_add, self.signposts), True, warn_duplicate=False)
add_chain(self, added, warned) ==
    {[n EXCEPT !.warned = [k \in WarningKinds |-> @[k] + warned[k]]] :
        n \in {NewSignposting(self.context_url, added \o q, TRUE, FALSE) :
                  q \in Orders(signposts(self))}}

\* Signposting.__add__ for a Signposting other : every result it may return
add(self, other) ==
    IF self.context_url # None /\ other.context_url # None
       /\ other.context_url # self.context_url
    THEN UNION {UNION {add_chain(self, q, f.warned) : q \in IterOrders(f.self)} :
                   f \in for_context(other, self.context_url)}
    ELSE UNION {add_chain(self, to_add(self, q), NoWarnings) :
                   q \in IterOrders(other)}

\* ------------------------------------------------------------ the inputs
\* the signposts the operands are built from
Pool ==
    {Signpost("cite-as", t, None, {}, c) : t \in Targets, c \in {None, 1}}
    \cup {Signpost("author", 1, None, {}, None),
          Signpost("linkset", 1, None, {}, None)}

RECURSIVE SeqsUpTo(_, _)
\* the sequences over S of length at most n
SeqsUpTo(S, n) ==
    IF n = 0
    THEN {<<>>}
    ELSE LET shorter == SeqsUpTo(S, n - 1)
         IN  shorter \cup {Append(q, x) : q \in shorter, x \in S}

\* ------------------------------------------------------------- the state
VARIABLES a, b, r, op, arg, inp, warnings, depth
vars == <<a, b, r, op, arg, inp, warnings, depth>>

\* Signposting() : the default arguments of the constructor
NoInput ==
    [context_url |-> None, signposts |-> <<>>, include_no_context |-> TRUE,
     warn_duplicate |-> TRUE]

Init ==
    /\ a = EmptySignposting(None)
    /\ b = EmptySignposting(None)
    /\ r = EmptySignposting(None)
    /\ op = "init"
    /\ arg = None
    /\ inp = NoInput
    /\ warnings = NoWarnings
    /\ depth = 0

\* the values of op once both operands are built
Ready == {"new b", "for_context", "or", "add", "round_trip", "feed"}

\* a = Signposting(context_url, signposts, include_no_context)
NewA ==
    /\ op = "init"
    /\ \E context_url \in OptContexts, q \in SeqsUpTo(Pool, MaxLen),
          include_no_context \in BOOLEAN :
          /\ ~RaisesValueError(context_url, include_no_context)
          /\ LET n == NewSignposting(context_url, q, include_no_context, TRUE)
             IN  /\ a' = n.self
                 /\ r' = n.self
                 /\ warnings' = n.warned
    /\ op' = "new a"
    /\ arg' = None
    /\ UNCHANGED <<b, inp, depth>>

\* b = Signposting(context_url, signposts, include_no_context)
NewB ==
    /\ op = "new a"
    /\ \E context_url \in OptContexts, q \in SeqsUpTo(Pool, MaxLenOther),
          include_no_context \in BOOLEAN :
          /\ ~RaisesValueError(context_url, include_no_context)
          /\ LET n == NewSignposting(context_url, q, include_no_context, TRUE)
             IN  /\ b' = n.self
                 /\ r' = n.self
                 /\ warnings' = n.warned
    /\ op' = "new b"
    /\ arg' = None
    /\ UNCHANGED <<a, inp, depth>>

\* r = a.for_context(context_uri)
ForContext ==
    /\ op \in Ready
    /\ \E context_uri \in OptContexts : \E n \in for_context(a, context_uri) :
          /\ r' = n.self
          /\ warnings' = n.warned
          /\ arg' = context_uri
    /\ op' = "for_context"
    /\ UNCHANGED <<a, b, inp, depth>>

\* faulty variant of Or: the merge is stored in the left operand
Or_InPlace ==
    /\ op \in Ready
    /\ \E n \in or(a, b) :
          /\ r' = n.self
          /\ a' = n.self
          /\ warnings' = n.warned
    /\ op' = "or"
    /\ arg' = None
    /\ UNCHANGED <<b, inp, depth>>

\* r = a | b
Or ==
    /\ op \in Ready
    /\ \E n \in or(a, b) :
          /\ r' = n.self
          /\ warnings' = n.warned
    /\ op' = "or"
    /\ arg' = None
    /\ UNCHANGED <<a, b, inp, depth>>

\* r = a + b
Add ==
    /\ op \in Ready
    /\ \E n \in add(a, b) :
          /\ r' = n.self
          /\ warnings' = n.warned
    /\ op' = "add"
    /\ arg' = None
    /\ UNCHANGED <<a, b, inp, depth>>

\* r = a.for_context(a.context_url).for_context(None)
RoundTrip ==
    /\ op \in Ready
    /\ a.context_url # None
    /\ \E m \in for_context(a, a.context_url) :
          \E n \in for_context(m.self, None) :
             /\ r' = n.self
             /\ warnings' = [k \in WarningKinds |-> m.warned[k] + n.warned[k]]
    /\ op' = "round_trip"
    /\ arg' = None
    /\ UNCHANGED <<a, b, inp, depth>>

\* the caller goes on with the result as the left operand: a = r
Feed ==
    /\ op \in {"for_context", "or", "add", "round_trip"}
    /\ depth < MaxDepth
    /\ a' = r
    /\ depth' = depth + 1
    /\ op' = "feed"
    /\ arg' = None
    /\ warnings' = NoWarnings
    /\ UNCHANGED <<b, r, inp>>

Next == NewA \/ NewB \/ ForContext \/ Or \/ Add \/ RoundTrip \/ Feed

Spec == Init /\ [][Next]_vars

\* ----------------------------- operands that are lists or sets of Signposts
\* Signposting.__add__ for an iterable of Signposts enumerated as q: the
\* branch "to_add = (s for s in other if ...)"
add_iterable(self, q) == add_chain(self, to_add(self, q), NoWarnings)

\* the orders in which "for s in other" enumerates the list, or the set, of
\* the signposts q
Enumerations(q, is_set) == IF is_set THEN Orders(ToSet(q)) ELSE {q}

\* faulty variant of OrIterable: the iterable is merged as a Signposting
\* without context would be
OrIterable_Merges ==
    /\ op = "new a"
    /\ \E q \in SeqsUpTo(Pool, MaxLen), is_set \in BOOLEAN :
          /\ \E n \in or(a, NewSignposting(None, q, TRUE, FALSE).self) :
                /\ r' = n.self
                /\ warnings' = n.warned
          /\ inp' = [NoInput EXCEPT !.signposts = q]
          /\ arg' = IF is_set THEN 1 ELSE None
    /\ op' = "or iterable"
    /\ UNCHANGED <<a, b, depth>>

\* a | x for a list or set x of Signposts: "if not isinstance(other,
\* Signposting): raise TypeError(...)"; nothing is returned
OrIterable ==
    /\ op = "new a"
    /\ \E q \in SeqsUpTo(Pool, MaxLen), is_set \in BOOLEAN :
          /\ inp' = [NoInput EXCEPT !.signposts = q]
          /\ arg' = IF is_set THEN 1 ELSE None
    /\ op' = "TypeError"
    /\ UNCHANGED <<a, b, r, warnings, depth>>

\* r = a + x for a list or set x of Signposts (arg = 1 for a set)
AddIterable ==
    /\ op = "new a"
    /\ \E q \in SeqsUpTo(Pool, MaxLen), is_set \in BOOLEAN :
          /\ \E e \in Enumerations(q, is_set) :
                \E n \in add_iterable(a, e) :
                   /\ r' = n.self
                   /\ warnings' = n.warned
          /\ inp' = [NoInput EXCEPT !.signposts = q]
          /\ arg' = IF is_set THEN 1 ELSE None
    /\ op' = "add iterable"
    /\ UNCHANGED <<a, b, depth>>

NextIterable == NewA \/ OrIterable \/ AddIterable

SpecIterable == Init /\ [][NextIterable]_vars

\* ------------------------------------------ the constructor on its own
\* media type and profiles of the signposts given to the constructor
Variants == {<<None, {}>>, <<1, {}>>, <<None, {1}>>}

\* the relations that fill an Optional attribute
Singular == {"cite-as", "license", "collection"}

\* the relations whose slot is a set that __iter__ enumerates
Plural == {"author", "describedby", "item", "type"}

\* the signposts given to the constructor
PoolNew ==
    {Signpost(rel, t, v[1], v[2], c) :
        rel \in Singular, t \in Targets, v \in Variants, c \in OptContexts}
    \cup {Signpost(rel, t, None, {}, c) :
             rel \in LinkRel \ Singular, t \in Targets, c \in OptContexts}

\* r = Signposting(context_url, signposts, include_no_context, warn_duplicate)
\* arg is the context_url the caller passed, inp.context_url the context
\* the constructor made of it; a ValueError leaves no Signposting behind
New ==
    /\ op = "init"
    /\ \E context_url \in ContextArgs, q \in SeqsUpTo(PoolNew, MaxLenNew),
          include_no_context \in BOOLEAN, warn_duplicate \in BOOLEAN :
          /\ IF RaisesValueError(context_url, include_no_context)
             THEN /\ op' = "ValueError"
                  /\ UNCHANGED <<a, r, warnings>>
             ELSE LET n == NewSignposting(context_url, q, include_no_context,
                                          warn_duplicate)
                  IN  /\ op' = "new"
                      /\ a' = n.self
                      /\ r' = n.self
                      /\ warnings' = n.warned
          /\ inp' = [context_url |-> ContextOf(context_url), signposts |-> q,
                     include_no_context |-> include_no_context,
                     warn_duplicate |-> warn_duplicate]
          /\ arg' = context_url
    /\ UNCHANGED <<b, depth>>

NextNew == New

SpecNew == Init /\ [][NextNew]_vars

\* ------------- the constructor on one relation under three contexts
NTargetsFiltered == 3

\* the choices of three distinct targets
DistinctTargets ==
    {t \in [1..3 -> 1..NTargetsFiltered] :
        \A i, j \in 1..3 : i # j => t[i] # t[j]}

\* three signposts of the relation rel with the targets t and, in that
\* order, no context and the contexts c1 and c2
ThreeContexts(rel, t, c1, c2) ==
    <<Signpost(rel, t[1], None, {}, None), Signpost(rel, t[2], None, {}, c1),
      Signpost(rel, t[3], None, {}, c2)>>

\* the sequences that list every member of q once
Shuffles(q) == {o \in Orders(ToSet(q)) : Len(o) = Len(q)}

\* r = Signposting(context_url, signposts, include_no_context) for three
\* signposts of one multi-valued relation with distinct targets, one
\* without context and two with different contexts
NewFiltered ==
    /\ op = "init"
    /\ \E context_url \in OptContexts, include_no_context \in BOOLEAN,
          rel \in Plural, c1 \in Contexts, t \in DistinctTargets :
          \E c2 \in Contexts \ {c1} :
             \E q \in Shuffles(ThreeContexts(rel, t, c1, c2)) :
                /\ ~RaisesValueError(context_url, include_no_context)
                /\ LET n == NewSignposting(context_url, q,
                                           include_no_context, TRUE)
                   IN  /\ a' = n.self
                       /\ r' = n.self
                       /\ warnings' = n.warned
                /\ inp' = [context_url |-> context_url, signposts |-> q,
                           include_no_context |-> include_no_context,
                           warn_duplicate |-> TRUE]
    /\ op' = "new filtered"
    /\ arg' = None
    /\ UNCHANGED <<b, depth>>

NextFiltered == NewFiltered

SpecFiltered == Init /\ [][NextFiltered]_vars

\* ----------------------------------------- Signpost from a relation string
\* the strings given as rel: the values of LinkRel, spellings of them in
\* other case, and relations registered by RFC8288 that LinkRel leaves out
RelStrings ==
    LinkRel \cup {"Author", "CITE-AS", "Cite-As", "TYPE", "Linkset", "ITEM",
                  "stylesheet", "canonical", "Canonical", ""}

\* str.lower() on the members of RelStrings
Lower(x) ==
    CASE x = "Author" -> "author"
      [] x \in {"CITE-AS", "Cite-As"} -> "cite-as"
      [] x = "TYPE" -> "type"
      [] x = "Linkset" -> "linkset"
      [] x = "ITEM" -> "item"
      [] x = "Canonical" -> "canonical"
      [] OTHER -> x

\* faulty variant of LinkRelLookup: the string is lower-cased first
LinkRelLookup_Lower(x) ==
    IF Lower(x) \in LinkRel THEN <<Lower(x)>> ELSE <<>>

\* LinkRel(x), the lookup of an Enum member by value: <<member>>, or <<>>
\* for the ValueError "x is not a valid LinkRel"
LinkRelLookup(x) ==
    IF x \in LinkRel THEN <<x>> ELSE <<>>

\* arg = Signpost(rel, target, media_type, profiles, context) for a string
\* rel: "self.rel = LinkRel(rel)  # May throw ValueError"
NewSignpost ==
    /\ op = "init"
    /\ \E x \in RelStrings, t \in Targets, v \in Variants, c \in OptContexts :
          /\ inp' = [rel |-> x, target |-> t, media_type |-> v[1],
                     profiles |-> v[2], context |-> c]
          /\ IF LinkRelLookup(x) = <<>>
             THEN /\ op' = "ValueError"
                  /\ arg' = arg
             ELSE /\ op' = "signpost"
                  /\ arg' = Signpost(LinkRelLookup(x)[1], t, v[1], v[2], c)
    /\ UNCHANGED <<a, b, r, warnings, depth>>

NextSignpost == NewSignpost

SpecSignpost == Init /\ [][NextSignpost]_vars

\* ------------------------------------------------ the command line tool
MaxUrls == 2
MaxFound == 1

\* the signposts a lookup may find at a URL
PoolFound ==
    {Signpost("cite-as", t, None, {}, None) : t \in Targets}
    \cup {Signpost("author", 1, None, {}, None)}

\* what find_signposting_http, find_signposting_html and
\* find_signposting_linkset may return for url: Signposting(url, signposts)
Found(url) ==
    {NewSignposting(url, q, TRUE, TRUE).self : q \in SeqsUpTo(PoolFound, MaxFound)}

\* main : "if not parsed.http and not parsed.html and not parsed.linkset:
\* parsed.http = True; parsed.html = True"
Methods(http, html, linkset) ==
    IF ~http /\ ~html /\ ~linkset
    THEN [http |-> TRUE, html |-> TRUE, linkset |-> FALSE]
    ELSE [http |-> http, html |-> html, linkset |-> linkset]

\* the entries one pass of the loop appends to signpostings, by method
Appended(url, parsed) ==
    LET by(method, wanted) ==
            IF wanted
            THEN {<<[method |-> method, signposting |-> s]>> : s \in Found(url)}
            ELSE {<<>>}
    IN  {x \o y \o z : x \in by("http", parsed.http),
                       y \in by("html", parsed.html),
                       z \in by("linkset", parsed.linkset)}

RECURSIVE Reduce(_, _)
\* reduce(lambda a,b: a|b, (s for _,s in signpostings), acc) : every
\* Signposting it may return
Reduce(acc, listed) ==
    IF listed = <<>>
    THEN {acc}
    ELSE UNION {Reduce(n.self, Tail(listed)) :
                   n \in or(acc, listed[1].signposting)}

RECURSIVE Printed(_, _, _)
\* the loop "for (method,signposting) in signpostings": what is printed
\* after "Signposting for" and the Signposting given to print_signposting,
\* for each entry
Printed(listed, url, parsed) ==
    IF listed = <<>>
    THEN {<<>>}
    ELSE LET s == listed[1].signposting
             shown == IF parsed.any_context
                         \/ (parsed.linkset /\ ~parsed.html /\ ~parsed.http)
                      THEN {n.self : n \in for_context(s, None)}
                      ELSE {s}
         IN  {<<[context |-> IF s.context_url # None
                             THEN s.context_url ELSE url,
                 method |-> listed[1].method,
                 signposting |-> x]>> \o rest :
                 x \in shown, rest \in Printed(Tail(listed), url, parsed)}

\* main(*args) up to the loop: inp holds the parsed arguments and the
\* local variable signpostings, done the number of URLs gone through
Main ==
    /\ op = "init"
    /\ \E url \in SeqsUpTo(Contexts, MaxUrls) \ {<<>>},
          http \in BOOLEAN, html \in BOOLEAN, linkset \in BOOLEAN,
          distinct \in BOOLEAN, any_context \in BOOLEAN :
          inp' = [url |-> url,
                  http |-> Methods(http, html, linkset).http,
                  html |-> Methods(http, html, linkset).html,
                  linkset |-> Methods(http, html, linkset).linkset,
                  distinct |-> distinct, any_context |-> any_context,
                  signpostings |-> <<>>, appended |-> <<>>, done |-> 0]
    /\ op' = "main"
    /\ UNCHANGED <<a, b, r, arg, warnings, depth>>

\* one pass of "for url in parsed.url" in which every lookup succeeds:
\* the lookups append to signpostings, which without --distinct is then
\* replaced by its merge, and every entry is printed. arg is what the pass
\* printed, r the last Signposting printed; signpostings is not emptied
\* between passes.
MainUrl ==
    /\ op \in {"main", "url"}
    /\ inp.done < Len(inp.url)
    /\ LET url == inp.url[inp.done + 1]
       IN  \E appended \in Appended(url, inp) :
              LET all == inp.signpostings \o appended
                  merged == {<<[method |-> "merged", signposting |-> m]>> :
                                m \in Reduce(EmptySignposting(None), all)}
              IN  \E listed \in (IF ~inp.distinct THEN merged ELSE {all}) :
                     \E printed \in Printed(listed, url, inp) :
                        /\ inp' = [inp EXCEPT !.signpostings = listed,
                                              !.appended = appended,
                                              !.done = @ + 1]
                        /\ arg' = printed
                        /\ r' = printed[Len(printed)].signposting
    /\ op' = "url"
    /\ UNCHANGED <<a, b, warnings, depth>>

\* a lookup raises HTTPError, URLError, ValueError, ...: main returns an
\* ERROR other than OK and nothing is printed for this URL
MainError ==
    /\ op \in {"main", "url"}
    /\ inp.done < Len(inp.url)
    /\ op' = "ERROR"
    /\ UNCHANGED <<a, b, r, arg, inp, warnings, depth>>

\* "return ERROR.OK" after the last URL
MainOK ==
    /\ op \in {"main", "url"}
    /\ inp.done = Len(inp.url)
    /\ op' = "OK"
    /\ UNCHANGED <<a, b, r, arg, inp, warnings, depth>>

NextMain == Main \/ MainUrl \/ MainError \/ MainOK

SpecMain == Init /\ [][NextMain]_vars

\* ------------------------- the constructor on one signpost per relation
\* every member of LinkRel once, in the order testIterComplete lists them
EveryRel == <<"item", "cite-as", "license", "collection", "author",
              "describedby", "linkset", "type">>

\* reversed(q)
Reverse(q) == [i \in 1..Len(q) |-> q[Len(q) + 1 - i]]

\* r = Signposting(context_url, S) for a set S of one signpost per link
\* relation, the signpost of relation rel having context ctx[rel]; the set
\* is enumerated forwards or backwards
NewComplete ==
    /\ op = "init"
    /\ \E context_url \in Contexts, ctx \in [LinkRel -> OptContexts],
          backwards \in BOOLEAN :
          LET S == [i \in 1..Len(EveryRel) |->
                       Signpost(EveryRel[i], 1, None, {}, ctx[EveryRel[i]])]
              q == IF backwards THEN Reverse(S) ELSE S
              n == NewSignposting(context_url, q, TRUE, TRUE)
          IN  /\ a' = n.self
              /\ r' = n.self
              /\ warnings' = n.warned
              /\ inp' = [context_url |-> context_url, signposts |-> q,
                         include_no_context |-> TRUE, warn_duplicate |-> TRUE]
    /\ op' = "new complete"
    /\ arg' = None
    /\ UNCHANGED <<b, depth>>

NextComplete == NewComplete

SpecComplete == Init /\ [][NextComplete]_vars


\* ================================================================ claims
\* every signpost a Signposting holds in a typed slot or in overflow
Held(self) == IterSet(self) \cup self.linksets

\* s with the context of its holder made explicit, if it has none
ExplicitIn(self, s) ==
    IF s.context = None /\ self.context_url # None
    THEN with_context(s, self.context_url)
    ELSE s

\* the Optional attribute a singular relation fills
SlotOf(self, rel) ==
    CASE rel = "cite-as" -> self.citeAs
      [] rel = "license" -> self.license
      [] rel = "collection" -> self.collection

\* every signpost of x.signposts is in result.signposts, unchanged or with
\* the context of x made explicit
KeptFrom(x, result) ==
    \A s \in signposts(x) :
        \/ s \in signposts(result)
        \/ /\ s.context = None
           /\ x.context_url # None
           /\ with_context(s, x.context_url) \in signposts(result)

\* C1: every signpost of a.signposts and of b.signposts is a member of
\* (a|b).signposts, unchanged or with its operand's context made explicit,
\* also when a is the result of earlier calls.
C1_OrKeepsAllSignposts ==
    op = "or" => KeptFrom(a, r) /\ KeptFrom(b, r)

\* C2: a signpost of s.signposts that has an explicit context is still in
\* s.for_context(c).signposts, for every c and also when s is the result of
\* earlier for_context calls (so along every chain of for_context calls).
C2_ForContextKeepsExplicit ==
    op = "for_context" =>
        \A s \in signposts(a) : s.context # None => s \in signposts(r)

\* C3 (as claimed): in every Signposting each signpost in a typed slot or in
\* overflow has the Signposting's context or no context, and each signpost
\* of the other bucket has a context different from the Signposting's.
C3_HeldHaveOwnContext ==
    /\ \A s \in Held(r) : s.context \in {r.context_url, None}
    /\ \A s \in r.others : s.context # r.context_url

\* C3 (amended): the same, for every Signposting that has a context; a
\* Signposting without a context has an empty other bucket and holds
\* signposts of any context in its slots.
C3_HeldHaveOwnContextIfSet ==
    /\ r.context_url # None =>
          /\ \A s \in Held(r) : s.context \in {r.context_url, None}
          /\ \A s \in r.others : s.context # r.context_url
    /\ r.context_url = None => r.others = {} /\ r.other_contexts = {}

\* C3 witness: a merge result with a context that holds a signpost of its
\* own context, a context-less one in the other bucket and one of another
\* context in the other bucket.
C3_Witness ==
    /\ op = "or"
    /\ r.context_url # None
    /\ \E s \in Held(r) : s.context = r.context_url
    /\ \E s \in r.others : s.context = None
    /\ \E s \in r.others : s.context \notin {None, r.context_url}


\* s, held by x, belongs to the context nc determined for a merge
BelongsTo(x, s, nc) == nc = None \/ ExplicitIn(x, s).context = nc

\* C4: in a|b, when a and b both have the singular attribute (citeAs,
\* license, collection) set, both belong to the context determined for the
\* merge and their targets differ, the result has a's target in the
\* attribute and b's signpost (context made explicit) in overflow.
C4_OrLeftWinsSingular ==
    op = "or" =>
        \A rel \in Singular :
            LET x == SlotOf(a, rel)
                y == SlotOf(b, rel)
                nc == IF a.context_url # None THEN a.context_url
                      ELSE b.context_url
            IN  (/\ x # <<>>
                 /\ y # <<>>
                 /\ BelongsTo(a, x[1], nc)
                 /\ BelongsTo(b, y[1], nc)
                 /\ x[1].target # y[1].target)
                => /\ SlotOf(r, rel) # <<>>
                   /\ SlotOf(r, rel)[1].target = x[1].target
                   /\ (IF nc = None THEN y[1] ELSE ExplicitIn(b, y[1]))
                          \in r.extras

\* what C5 promises of a+b, for X = a.citeAs and Y = b.citeAs
DisplacedBy(X, Y) ==
    /\ r.citeAs # <<>>
    /\ r.citeAs[1].target = Y.target
    /\ X \in r.extras
    /\ X \in IterSet(r)
    /\ X \in signposts(r)
    /\ SignpostingLen(r) >= 2

\* C5 (as claimed): for a and b with the same context, a.citeAs = X and
\* b.citeAs = Y (a displacement: the targets differ), (a+b).citeAs has Y's
\* target and X is still iterated (in overflow, counted by len) and in
\* (a+b).signposts.
C5_AddDisplacesCiteAs ==
    (/\ op = "add"
     /\ a.context_url = b.context_url
     /\ a.citeAs # <<>>
     /\ b.citeAs # <<>>
     /\ a.citeAs[1].target # b.citeAs[1].target)
    => DisplacedBy(a.citeAs[1], b.citeAs[1])

\* C5 (amended): the same, when Y has no context or the context of a (which
\* is always so when a and b share a non-null context).
C5_AddDisplacesCiteAsOfContext ==
    (/\ op = "add"
     /\ a.context_url = b.context_url
     /\ a.citeAs # <<>>
     /\ b.citeAs # <<>>
     /\ a.citeAs[1].target # b.citeAs[1].target
     /\ b.citeAs[1].context \in {None, a.context_url})
    => DisplacedBy(a.citeAs[1], b.citeAs[1])

\* C5 witness: a+b of two Signpostings of the same context whose cite-as
\* targets differ; a's cite-as sits in the overflow of the result.
C5_Witness ==
    /\ op = "add"
    /\ a.context_url = b.context_url
    /\ a.context_url # None
    /\ a.citeAs # <<>>
    /\ b.citeAs # <<>>
    /\ a.citeAs[1].target # b.citeAs[1].target
    /\ r.citeAs # <<>>
    /\ r.citeAs[1].target = b.citeAs[1].target
    /\ a.citeAs[1] \in r.extras

\* C6: the context of a|b is a's if a has one, else b's, else None; when
\* only b has a context, the context-less signposts a holds are assigned to
\* no slot of the result and stay, context-less, in its other bucket.
C6_OrContextAndContextless ==
    op = "or" =>
        /\ r.context_url = (IF a.context_url # None THEN a.context_url
                            ELSE b.context_url)
        /\ (a.context_url = None /\ b.context_url # None) =>
              \A s \in Held(a) :
                  s.context = None => s \notin Held(r) /\ s \in r.others

\* C7 (as claimed): s.for_context(c).for_context(None).signposts equals
\* s.signposts, for s with context c.
C7_RoundTripSame ==
    op = "round_trip" => signposts(r) = signposts(a)


\* C7 (amended): every signpost of s.for_context(c).for_context(None)
\* .signposts is one of s.signposts, with c made explicit if it had no
\* context; and every author, describedby, item or type signpost of
\* s.signposts that has a context or is assigned to s's slots is returned in
\* that form.
C7_RoundTripExplicit ==
    op = "round_trip" =>
        /\ signposts(r) \subseteq {ExplicitIn(a, x) : x \in signposts(a)}
        /\ \A x \in signposts(a) :
              (x.rel \in Plural /\ (x.context # None \/ x \in IterSet(a)))
              => ExplicitIn(a, x) \in signposts(r)

\* C7 witness: a round trip that returns a context-less author of s with the
\* context of s made explicit.
C7_Witness ==
    /\ op = "round_trip"
    /\ \E x \in a.authors :
          /\ x.context = None
          /\ x \notin signposts(r)
          /\ with_context(x, a.context_url) \in r.authors
    /\ a.others # {}

\* the positions of the constructor's input whose signpost has relation rel
\* and is filed under the Signposting's own context
OwnPositions(rel) ==
    {i \in 1..Len(inp.signposts) :
        /\ inp.signposts[i].rel = rel
        /\ \/ inp.context_url = None
           \/ inp.signposts[i].context = inp.context_url
           \/ inp.include_no_context /\ inp.signposts[i].context = None}

\* the first position of a non-empty set of positions
First(P) == CHOOSE i \in P : \A j \in P : i <= j

\* the positions of P whose target differs from the first one's
Later(P) ==
    {j \in P : inp.signposts[j].target # inp.signposts[First(P)].target}

\* C8: when the input holds, for the Signposting's context, a cite-as
\* signpost with target A and later ones with other targets, citeAs has
\* target A, each later one is in overflow (iterated, counted by len, in
\* signposts) and caused one warning if warn_duplicate is true (none if
\* false); the same for license and collection.
C8_FirstSingularWins ==
    op = "new" =>
        \A rel \in Singular :
            LET P == OwnPositions(rel)
            IN  P # {} =>
                  /\ SlotOf(r, rel) # <<>>
                  /\ SlotOf(r, rel)[1].target = inp.signposts[First(P)].target
                  /\ \A j \in Later(P) :
                        /\ inp.signposts[j] \in r.extras
                        /\ inp.signposts[j] \in IterSet(r)
                        /\ inp.signposts[j] \in signposts(r)
                  /\ SignpostingLen(r) >=
                        1 + Cardinality({inp.signposts[j] : j \in Later(P)})
                  /\ warnings[rel] = IF inp.warn_duplicate
                                     THEN Cardinality(Later(P)) ELSE 0

\* C8 witness: a constructor call given two license signposts of its
\* context with different targets; the second is in overflow and was warned
\* about once.
C8_Witness ==
    /\ op = "new"
    /\ inp.warn_duplicate
    /\ Cardinality(OwnPositions("license")) = 2
    /\ Later(OwnPositions("license")) = {2}
    /\ r.license = <<inp.signposts[1]>>
    /\ r.extras = {inp.signposts[2]}
    /\ warnings["license"] = 1

\* C9: when a later signpost of a singular relation has the target of the
\* first one filed under the context, it is dropped: the attribute keeps the
\* first-seen signpost, nothing goes to overflow for it and no warning is
\* emitted for it.
C9_SameTargetKeepsFirst ==
    op = "new" =>
        \A rel \in Singular :
            LET P == OwnPositions(rel)
            IN  (P # {} /\ P \ Later(P) # {First(P)}) =>
                  /\ SlotOf(r, rel) = <<inp.signposts[First(P)]>>
                  /\ r.extras = {inp.signposts[j] : j \in Later(P)}
                  /\ warnings[rel] = IF inp.warn_duplicate
                                     THEN Cardinality(Later(P)) ELSE 0

\* C10: len counts the signposts of the three singular attributes, of
\* authors, describedBy, items, linksets and types, and of overflow, and
\* none of the other bucket.
C10_LenCountsEverySlot ==
    SignpostingLen(r) =
        Len(r.citeAs) + Len(r.license) + Len(r.collection)
        + Cardinality(r.authors) + Cardinality(r.describedBy)
        + Cardinality(r.items) + Cardinality(r.linksets)
        + Cardinality(r.types) + Cardinality(r.extras)

\* C11: for a set S of distinct signposts covering every link relation (one
\* signpost per singular relation) and a context c, iterating
\* Signposting(c, S) yields exactly the signposts of S whose context is
\* absent or c, and its signposts view is the whole of S.
C11_IterYieldsOwnContext ==
    op = "new complete" =>
        LET S == ToSet(inp.signposts)
        IN  /\ IterSet(r) = {s \in S : s.context \in {None, inp.context_url}}
            /\ signposts(r) = S

\* bool(self) : the class defines no __bool__, so Python takes len(self) != 0
Truthy(self) == SignpostingLen(self) > 0

\* C12: a Signposting is falsy if and only if all its typed slots and its
\* overflow are empty; the other bucket plays no part.
C12_FalsyIffNothingAssigned ==
    (~Truthy(r)) <=> (Held(r) = {})

\* the signposts of the constructor's input that are filed under its context
OwnInput ==
    {s \in ToSet(inp.signposts) :
        \/ s.context = inp.context_url
        \/ inp.include_no_context /\ s.context = None}

\* C13: for Signposting(c, S) with c non-null, the signposts assigned to the
\* slots are exactly those of S with context c, and with include_no_context
\* also those with no context; with include_no_context false the
\* context-less ones are assigned to no slot but remain in signposts; and
\* other_contexts is exactly the set of explicit contexts of S other than c.
C13_SlotsHoldOwnContext ==
    (op = "new" /\ inp.context_url # None) =>
        /\ Held(r) = OwnInput
        /\ ~inp.include_no_context =>
              \A s \in ToSet(inp.signposts) :
                  s.context = None => s \notin Held(r) /\ s \in signposts(r)
        /\ r.other_contexts =
              {s.context : s \in ToSet(inp.signposts)} \ {None, inp.context_url}

\* C14: if s has a context and c is non-null, s.for_context(c) has context
\* c, every signpost of its signposts has an explicit context, and the
\* signposts assigned to its slots are exactly those s holds whose context
\* is c, s's context standing for the missing context of a signpost in s's
\* slots or overflow; so for_context of an unknown context is empty and
\* falsy.
C14_ForContextSelectsContext ==
    (op = "for_context" /\ a.context_url # None /\ arg # None) =>
        /\ r.context_url = arg
        /\ \A s \in signposts(r) : s.context # None
        /\ Held(r) = {y \in {ExplicitIn(a, x) : x \in Held(a)} \cup a.others :
                         y.context = arg}
        /\ (arg \notin {a.context_url} \cup a.other_contexts) =>
              Held(r) = {} /\ ~Truthy(r)

\* C15 (as claimed): in s.for_context(c) with c non-null, a context-less
\* signpost s holds is given s's context when s has one; when s has no
\* context it is dropped with a warning and is not in the result's
\* signposts.
C15_ContextlessGivenOrDropped ==
    (op = "for_context" /\ arg # None) =>
        \A x \in Held(a) :
            x.context = None =>
                IF a.context_url # None
                THEN with_context(x, a.context_url) \in signposts(r)
                ELSE x \notin signposts(r) /\ warnings["unknown-context"] > 0

\* C15 (amended): in s.for_context(c) with c non-null, when s has a context
\* every context-less signpost that iterating s yields is in the result's
\* signposts with s's context, the context-less signposts of s's other
\* bucket are dropped with one warning each, and no signpost of the result
\* is context-less; when s has no context, the context-less signposts that
\* iterating s yields are kept as they are, without a warning, in the
\* result's other bucket.
C15_ContextlessGivenOrKept ==
    (op = "for_context" /\ arg # None) =>
        IF a.context_url # None
        THEN /\ \A x \in IterSet(a) :
                   x.context = None =>
                       with_context(x, a.context_url) \in signposts(r)
             /\ \A s \in signposts(r) : s.context # None
             /\ warnings["unknown-context"] =
                   Cardinality({o \in a.others : o.context = None})
        ELSE /\ \A x \in IterSet(a) :
                   x.context = None => x \in r.others /\ x \notin Held(r)
             /\ warnings["unknown-context"] = 0

\* C15 witness: for_context(c) of a Signposting without context that holds a
\* context-less signpost: no warning, and the signpost is in the other
\* bucket of the result.
C15_Witness ==
    /\ op = "for_context"
    /\ arg # None
    /\ a.context_url = None
    /\ \E x \in IterSet(a) : x.context = None /\ x \in r.others
    /\ warnings["unknown-context"] = 0

\* C16: s.for_context(None) has no context, an empty other bucket and empty
\* other_contexts, and every signpost of s.signposts (from the slots and
\* from the other bucket) is held, with its context unchanged, in a typed
\* slot or overflow of the result.
C16_ForContextNoneHoldsAll ==
    (op = "for_context" /\ arg = None) =>
        /\ r.context_url = None
        /\ r.others = {}
        /\ r.other_contexts = {}
        /\ \A s \in signposts(a) : s \in Held(r)

\* a and b have different contexts and both have citeAs set
BothCiteOtherContext ==
    /\ a.context_url # None
    /\ b.context_url # None
    /\ a.context_url # b.context_url
    /\ a.citeAs # <<>>
    /\ b.citeAs # <<>>

\* C17: for a with context c1 and b with another context c2, both with
\* citeAs set, a|b has context c1 and a's citeAs target, b's citeAs is not
\* in the iteration of a|b, c2 is in (a|b).other_contexts, and
\* (a|b).for_context(c2).citeAs has the target of b.citeAs.
C17_OrOtherContextRetrievable ==
    (op = "or" /\ BothCiteOtherContext) =>
        /\ r.context_url = a.context_url
        /\ r.citeAs # <<>>
        /\ r.citeAs[1].target = a.citeAs[1].target
        /\ b.citeAs[1] \notin IterSet(r)
        /\ ExplicitIn(b, b.citeAs[1]) \notin IterSet(r)
        /\ b.context_url \in r.other_contexts
        /\ \A n \in for_context(r, b.context_url) :
              /\ n.self.citeAs # <<>>
              /\ n.self.citeAs[1].target = b.citeAs[1].target

\* the cite-as signposts for b's context that a|b files in its other bucket
\* (context made explicit): from a's other bucket and from what b iterates
CiteAsForOther ==
    {x \in a.others \cup {ExplicitIn(b, y) : y \in IterSet(b)} :
        x.rel = "cite-as" /\ x.context = b.context_url}

\* C17 (amended): the same for the context, the citeAs, the iteration and
\* other_contexts of a|b; (a|b).for_context(c2).citeAs has the target of one
\* of the cite-as signposts for c2 that a's other bucket or b holds, which is
\* b.citeAs's target when they all have that target.
C17_OrOtherContextCandidates ==
    (op = "or" /\ BothCiteOtherContext) =>
        /\ r.context_url = a.context_url
        /\ r.citeAs # <<>>
        /\ r.citeAs[1].target = a.citeAs[1].target
        /\ b.citeAs[1] \notin IterSet(r)
        /\ ExplicitIn(b, b.citeAs[1]) \notin IterSet(r)
        /\ b.context_url \in r.other_contexts
        /\ \A n \in for_context(r, b.context_url) :
              /\ n.self.citeAs # <<>>
              /\ n.self.citeAs[1].target \in {x.target : x \in CiteAsForOther}
              /\ (\A x \in CiteAsForOther : x.target = b.citeAs[1].target)
                 => n.self.citeAs[1].target = b.citeAs[1].target

\* C17 witness: a|b of two Signpostings of different contexts, a holding in
\* its other bucket a cite-as for c2 with another target than b.citeAs;
\* (a|b).for_context(c2) may have b.citeAs's target in citeAs and may have
\* the other one.
C17_Witness ==
    /\ op = "or"
    /\ BothCiteOtherContext
    /\ r.context_url = a.context_url
    /\ \E x \in a.others : /\ x.rel = "cite-as"
                            /\ x.context = b.context_url
                            /\ x.target # b.citeAs[1].target
    /\ \E n \in for_context(r, b.context_url) :
          n.self.citeAs # <<>>
          /\ n.self.citeAs[1].target = b.citeAs[1].target
    /\ \E n \in for_context(r, b.context_url) :
          n.self.citeAs # <<>>
          /\ n.self.citeAs[1].target # b.citeAs[1].target

\* no signpost s of b is in the result unless a.signposts had it
NotAdded(s) == s \in signposts(r) => s \in signposts(a)

\* C18: a+b has the context of a; every signpost of a.signposts (a's other
\* bucket included) is in (a+b).signposts; and a signpost of b with an
\* explicit context other than a's, or (when b has an explicit context
\* different from a's explicit context) a signpost of b with implicit
\* context, is not in (a+b).signposts unless a already held it.
C18_AddKeepsLeftDropsForeign ==
    op = "add" =>
        /\ r.context_url = a.context_url
        /\ \A s \in signposts(a) : s \in signposts(r)
        /\ \A s \in Held(b) \cup b.others :
              /\ s.context \notin {None, a.context_url} => NotAdded(s)
              /\ (/\ a.context_url # None
                  /\ b.context_url # None
                  /\ a.context_url # b.context_url
                  /\ s.context = None)
                 => NotAdded(s) /\ NotAdded(with_context(s, b.context_url))

\* C19: two Signpostings are equal if and only if the sets of signposts
\* assigned to their contexts (typed slots and overflow) are equal as
\* Signposts; their own contexts and other buckets are not compared.
C19_EqualIffSameAssigned ==
    op \in Ready => (SignpostingEq(a, b) <=> Held(a) = Held(b))

C21_ValueErrorIffNone ==
    (op \in {"new", "ValueError"}) =>
        ((op = "ValueError") <=> (~inp.include_no_context /\ arg = None))

\* C21 (amended): the constructor raises ValueError, whatever the signposts
\* and leaving no Signposting, exactly when include_no_context is false and
\* the context is None or the empty string, or when the context is not an
\* absolute URI; every other combination gives a Signposting whose context
\* is the given one (none for the empty string).
C21_ValueErrorIffNoContext ==
    (op \in {"new", "ValueError"}) =>
        /\ (op = "ValueError") <=>
              \/ ~inp.include_no_context /\ arg \in {None, Empty}
              \/ arg = NotAbsolute
        /\ (op = "ValueError") => r = EmptySignposting(None) /\ a = r
        /\ (op = "new") =>
              r.context_url = (IF arg = Empty THEN None ELSE arg)

\* the empty string and include_no_context false raise, with signposts given
C21_Witness ==
    /\ op = "ValueError"
    /\ arg = Empty
    /\ ~inp.include_no_context
    /\ Len(inp.signposts) = MaxLenNew


\* ------------------------------------------------------------------ C22
\* C22: a | x for a list or set x of Signposts raises TypeError and produces
\* no Signposting (a and the last result are as before), whereas a + x
\* returns a Signposting: it has a's context and holds every author
\* signpost of x that has a's context or none.
C22_OrRejectsIterable ==
    [][(op = "new a") =>
          \/ /\ op' = "TypeError"
             /\ a' = a /\ r' = r /\ warnings' = warnings
          \/ /\ op' = "add iterable"
             /\ a' = a
             /\ r'.context_url = a.context_url
             /\ \A s \in ToSet(inp'.signposts) :
                   (s.rel = "author" /\ s.context \in {None, a.context_url})
                       => s \in r'.authors]_vars

\* C22 witness: a | x was refused for a list x of two signposts and a with
\* a context
C22_Witness ==
    /\ op = "TypeError"
    /\ arg = None
    /\ Len(inp.signposts) = MaxLen
    /\ a.context_url # None


\* ------------------------------------------------------------------ C23
\* C23 as stated: given three signposts of one multi-valued relation with
\* distinct targets and the contexts None, page1 and page2,
\* Signposting(page1, ...) with default flags has len 1 and other_contexts
\* {page2}.
C23_FilteredLenOne ==
    (/\ op = "new filtered"
     /\ inp.include_no_context
     /\ inp.context_url \in {s.context : s \in ToSet(inp.signposts)} \ {None})
        => /\ SignpostingLen(r) = 1
           /\ r.other_contexts =
                 {s.context : s \in ToSet(inp.signposts)}
                     \ {None, inp.context_url}

\* C23 (amended): given three signposts of one multi-valued relation with
\* distinct targets and the contexts None, page1 and page2,
\* Signposting(page1, ...) with default flags has len 2 (it holds the page1
\* signpost and the context-less one) and other_contexts {page2}; with
\* include_no_context false it has len 1 (the page1 signpost only) and
\* other_contexts {page2} as well.
C23_FilteredLenTwo ==
    (/\ op = "new filtered"
     /\ inp.context_url \in {s.context : s \in ToSet(inp.signposts)} \ {None})
        => LET S == ToSet(inp.signposts)
               own == {s \in S : s.context = inp.context_url}
               implicit == {s \in S : s.context = None}
           IN  /\ SignpostingLen(r) = IF inp.include_no_context THEN 2 ELSE 1
               /\ IterSet(r) = IF inp.include_no_context
                                THEN own \cup implicit ELSE own
               /\ r.other_contexts =
                     {s.context : s \in S} \ {None, inp.context_url}
               /\ Cardinality(r.other_contexts) = 1

\* C23 witness: Signposting(page1, ...) with default flags on three
\* signposts with distinct targets and the contexts None, page1, page2
C23_Witness ==
    /\ op = "new filtered"
    /\ inp.include_no_context
    /\ inp.context_url # None
    /\ Cardinality({s.target : s \in ToSet(inp.signposts)}) = 3
    /\ {s.context : s \in ToSet(inp.signposts)} \ {None, inp.context_url} # {}
    /\ Cardinality(r.other_contexts) = 1


\* ------------------------------------------------------------------ C24
\* the eight relations of Signposting
EightRelations ==
    {"author", "collection", "describedby", "item", "cite-as", "type",
     "license", "linkset"}

\* C24 as stated: constructing a link relation from a string x succeeds if
\* and only if x, compared case-insensitively, is one of the eight
\* relations; it fails for any other string.
C24_RelationCaseInsensitive ==
    (op \in {"signpost", "ValueError"}) =>
        ((op = "signpost") <=> (Lower(inp.rel) \in EightRelations))

\* C24 (amended): constructing a link relation from a string x succeeds if
\* and only if x is, exactly as spelled (lower case), one of the eight
\* relations, and the Signpost then has that relation; it fails with
\* ValueError for any other string, including stylesheet, canonical and
\* spellings of the eight in other case such as TYPE.
C24_RelationExact ==
    (op \in {"signpost", "ValueError"}) =>
        /\ (op = "signpost") <=> (inp.rel \in EightRelations)
        /\ (op = "signpost") => arg.rel = inp.rel
        /\ (inp.rel \in {"stylesheet", "canonical"}) => op = "ValueError"
        /\ (inp.rel \notin EightRelations /\ Lower(inp.rel) \in EightRelations)
              => op = "ValueError"

\* C24 witness: the upper-case spelling TYPE is refused
C24_Witness ==
    /\ op = "ValueError"
    /\ inp.rel = "TYPE"


\* ------------------------------------------------------------------ C25
\* the targets held in the typed slot of the relation rel
SlotTargets(self, rel) ==
    CASE rel \in Singular -> {x.target : x \in ToSet(SlotOf(self, rel))}
      [] rel = "author" -> {x.target : x \in self.authors}
      [] rel = "describedby" -> {x.target : x \in self.describedBy}
      [] rel = "item" -> {x.target : x \in self.items}
      [] rel = "type" -> {x.target : x \in self.types}
      [] rel = "linkset" -> {x.target : x \in self.linksets}

\* C25: for s with context c, s.for_context(c) holds in every typed slot
\* (the linksets included) the same set of targets as s, and applying
\* for_context(c) to the result changes nothing.
C25_ForContextOwnSameSlots ==
    (op = "for_context" /\ a.context_url # None /\ arg = a.context_url) =>
        /\ \A rel \in LinkRel : SlotTargets(r, rel) = SlotTargets(a, rel)
        /\ \A n \in for_context(r, arg) :
              \A rel \in LinkRel :
                 SlotTargets(n.self, rel) = SlotTargets(r, rel)


\* ------------------------------------------------------------------ C26
\* C26: if s.citeAs is set, s.for_context(None).citeAs is set and has the
\* same target, whatever the enumeration order and whatever cite-as
\* signposts sit in the overflow or in the other bucket; the same for
\* license and collection.
C26_ForContextNoneKeepsSingular ==
    (op = "for_context" /\ arg = None) =>
        \A rel \in Singular :
            SlotOf(a, rel) # <<>> =>
                /\ SlotOf(r, rel) # <<>>
                /\ SlotOf(r, rel)[1].target = SlotOf(a, rel)[1].target


\* ------------------------------------------------------------------ C27
\* C27: for a and b with the same context (or both none), a | b equals
\* b | a under Signposting equality, also when they hold signposts of a
\* singular relation with the same target that differ in media type,
\* profiles or context.
C27_OrCommutes ==
    (op = "or" /\ a.context_url = b.context_url) =>
        \A n \in or(b, a) : SignpostingEq(r, n.self)


\* ------------------------------------------------------------------ C28
\* x and y have the same context and the same content in every singular
\* slot, every multi-valued slot, the overflow and the other bucket
SameContent(x, y) ==
    /\ x.context_url = y.context_url
    /\ \A rel \in Singular : SlotOf(x, rel) = SlotOf(y, rel)
    /\ x.authors = y.authors /\ x.describedBy = y.describedBy
    /\ x.items = y.items /\ x.types = y.types /\ x.linksets = y.linksets
    /\ x.extras = y.extras
    /\ x.others = y.others

\* C28: a + [] (and likewise a + Signposting()) has a's context and the
\* same content as a in every singular slot, every multi-valued slot, the
\* overflow and the other bucket, also for a built with include_no_context
\* false or holding overflow.
C28_AddNothingSame ==
    (op = "add iterable" /\ inp.signposts = <<>>) => SameContent(r, a)


\* ------------------------------------------------------------------ C29
\* other_contexts of self is the set of the non-null contexts of the
\* signposts in its other bucket and does not hold its own context; without
\* a context both are empty
OtherContextsExact(self) ==
    /\ self.other_contexts = {s.context : s \in self.others} \ {None}
    /\ self.context_url \notin self.other_contexts
    /\ self.context_url = None =>
          self.others = {} /\ self.other_contexts = {}

\* C29: in every Signposting that is constructed or returned by
\* for_context, | or +, other_contexts is exactly the set of the non-null
\* contexts of the signposts in the other bucket and never contains the
\* Signposting's own context; a Signposting without context has an empty
\* other bucket and empty other_contexts.
C29_OtherContextsExact ==
    OtherContextsExact(a) /\ OtherContextsExact(b) /\ OtherContextsExact(r)

\* C29 witness: a merge result whose other bucket holds a signpost without
\* context beside one of another context
C29_Witness ==
    /\ op \in {"or", "add", "for_context"}
    /\ r.context_url # None
    /\ r.other_contexts # {}
    /\ \E s \in r.others : s.context # None
    /\ \E s \in a.others : s.context = None


====
